---- MODULE Spec2Model ----
(***************************************************************************)
(* Model of the detective-mystery game: the session state held by the App  *)
(* component and the three engine calls of src/services/geminiService.ts   *)
(* (generateMystery, judgeInput, evaluateSolution).  src/App.tsx holds two *)
(* App components: the second (lines 342-700, with the key gate and the    *)
(* FAILED screen) is specified by Spec, the first (lines 9-320, with       *)
(* neither) by FirstAppSpec, over the same variables.                      *)
(*                                                                         *)
(* Every async handler runs in two atomic steps: the synchronous part up   *)
(* to its `await` (which captures the render's state in its closure and    *)
(* puts a call in flight), and the continuation after the provider         *)
(* settles.  Calls in flight are kept in `inflight` with everything the    *)
(* closure captured.                                                       *)
(***************************************************************************)
EXTENDS Integers, Sequences, FiniteSets, TLC

VARIABLES
    hasApiKey,      \* App.tsx:343
    phase,          \* App.tsx:344
    mystery,        \* App.tsx:345  (Null or a MysteryData)
    messages,       \* App.tsx:346
    isProcessing,   \* App.tsx:347
    activeTarget,   \* App.tsx:348
    unlockedClues,  \* App.tsx:349
    finalTheory,    \* App.tsx:351
    endingResult,   \* App.tsx:352  (Null or an EndingEvaluation)
    inflight,       \* provider calls awaiting settlement: model and closure
    session,        \* history: number of startNewGame invocations in the run
    turns           \* history: number of player inputs accepted in the run

vars == <<hasApiKey, phase, mystery, messages, isProcessing,
          activeTarget, unlockedClues, finalTheory, endingResult, inflight,
          session, turns>>

\* What a session owns (everything but the bookkeeping of calls and history).
sessionState == <<phase, mystery, messages, activeTarget, unlockedClues,
                  finalTheory, endingResult>>

-----------------------------------------------------------------------------
(* Bounds of the model *)

MaxGames == 2       \* startNewGame invocations explored
MaxInflight == 2    \* provider calls in flight at once explored
MaxTurns == 2       \* accepted player inputs explored

-----------------------------------------------------------------------------
(* JavaScript values *)

Null == [null |-> TRUE]         \* null / undefined object
Undefined == "<undefined>"      \* a missing string field
NullStr == "<null>"             \* JSON null in a string field

\* o.f for a field that may be absent (undefined)
Get(o, f) == IF f \in DOMAIN o THEN o[f] ELSE Undefined

\* truthiness of a string-or-null value
Truthy(v) == v \notin {Undefined, NullStr, ""}

\* { ...o, f: v }
Spread(o, f, v) == [k \in (DOMAIN o) \cup {f} |-> IF k = f THEN v ELSE o[k]]

\* arr.find(x => x.id === id)
FindById(arr, id) ==
    IF \E i \in 1..Len(arr) : Get(arr[i], "id") = id
    THEN arr[CHOOSE i \in 1..Len(arr) :
                /\ Get(arr[i], "id") = id
                /\ \A j \in 1..(i-1) : Get(arr[j], "id") # id]
    ELSE Null

\* arr.slice(-n)
SliceLast(arr, n) ==
    IF Len(arr) <= n THEN arr ELSE SubSeq(arr, Len(arr) - n + 1, Len(arr))

\* Text is a sequence of characters; " " stands for any white space.
RECURSIVE TrimStart(_)
TrimStart(s) == IF s # <<>> /\ Head(s) = " " THEN TrimStart(Tail(s)) ELSE s

RECURSIVE TrimEnd(_)
TrimEnd(s) ==
    IF s # <<>> /\ s[Len(s)] = " " THEN TrimEnd(SubSeq(s, 1, Len(s) - 1)) ELSE s

\* String.prototype.trim
Trim(s) == TrimEnd(TrimStart(s))

-----------------------------------------------------------------------------
(* GamePhase, src/types.ts:2-9 *)

GamePhase == {"IDLE", "LOADING", "PLAYING", "SOLVING", "ENDED", "FAILED"}

\* AnswerType, src/types.ts:47-55
AnswerType == {"YES", "NO", "IRRELEVANT", "HINT", "CORRECT", "CLARIFICATION",
               "NPC_DIALOGUE"}

-----------------------------------------------------------------------------
(* The content provider.  A generateContent call either throws an error    *)
(* with some message or returns a response whose text is absent/empty,     *)
(* is not JSON, or is the JSON text of some value.                         *)

Throw(m) == [kind |-> "throw", message |-> m]
NoText == [kind |-> "text", text |-> [empty |-> TRUE]]
Garbage == [kind |-> "text", text |-> [garbage |-> TRUE]]
JsonText(v) == [kind |-> "text", text |-> [json |-> v]]

\* !text  (undefined or the empty string)
Falsy(text) == "empty" \in DOMAIN text

\* JSON.parse(text): a SyntaxError unless the text is well-formed JSON
JSONparse(text) ==
    IF "json" \in DOMAIN text
    THEN [threw |-> FALSE, value |-> text.json]
    ELSE [threw |-> TRUE, message |-> "SyntaxError"]

Return(v) == [threw |-> FALSE, value |-> v]
Raise(m) == [threw |-> TRUE, message |-> m]

\* the model every generateContent call names (geminiService.ts:4)
MODEL_NAME == "gemini-1.5-flash"

-----------------------------------------------------------------------------
(* generateImage, src/services/geminiService.ts:20-46 *)

ImageResponses ==
    { [kind |-> "throw"],
      [kind |-> "images", bytes |-> Undefined],
      [kind |-> "images", bytes |-> "b64"] }

generateImage(img) ==
    IF img.kind = "throw" THEN Undefined
    ELSE IF Truthy(img.bytes) THEN "data:image/jpeg;base64," \o img.bytes
    ELSE Undefined

-----------------------------------------------------------------------------
(* generateMystery, src/services/geminiService.ts:51-151 *)

\* mutant: the clue is kept as the provider sent it
LockClueAsSent(c) == c

\* data.clues.map(c => ({ ...c, isLocked: true }))     (line 136)
LockClue(c) == Spread(c, "isLocked", TRUE)

LockAll(clues) == [i \in 1..Len(clues) |-> LockClue(clues[i])]

\* mutant: one failed portrait leaves every NPC without an avatar
AssignAvatarsAllOrNothing(npcs, imgs) ==
    LET asked == {i \in 1..Len(npcs) : Truthy(Get(npcs[i], "visualSummary"))}
        ok == \A i \in asked : Truthy(generateImage(imgs[i]))
    IN [i \in 1..Len(npcs) |->
           IF i \in asked
           THEN Spread(npcs[i], "avatarUrl",
                       IF ok THEN generateImage(imgs[i]) ELSE Undefined)
           ELSE npcs[i]]

\* lines 139-143: every NPC with a visualSummary gets generateImage's result
AssignAvatars(npcs, imgs) ==
    [i \in 1..Len(npcs) |->
        IF Truthy(Get(npcs[i], "visualSummary"))
        THEN Spread(npcs[i], "avatarUrl", generateImage(imgs[i]))
        ELSE npcs[i]]

\* mutant: the catch throws a new error that drops the one observed
generateMysteryDropsCause(resp, imgs) ==
    IF resp.kind = "throw" \/ Falsy(resp.text)
    THEN Raise("Failed to generate mystery")
    ELSE LET parsed == JSONparse(resp.text) IN
         IF parsed.threw THEN parsed
         ELSE LET data == parsed.value IN
              IF data = Null \/ "clues" \notin DOMAIN data
                 \/ "npcs" \notin DOMAIN data
              THEN Raise("TypeError")
              ELSE Return([data EXCEPT
                             !.clues = LockAll(data.clues),
                             !.npcs = AssignAvatars(data.npcs, imgs)])

\* resp: the text model's response; imgs: the image model's response per NPC
generateMystery(resp, imgs) ==
    IF resp.kind = "throw" THEN Raise(resp.message)
    ELSE IF Falsy(resp.text) THEN Raise("No text returned from Gemini")
    ELSE LET parsed == JSONparse(resp.text) IN
         IF parsed.threw THEN parsed
         ELSE LET data == parsed.value IN
              IF data = Null \/ "clues" \notin DOMAIN data
                 \/ "npcs" \notin DOMAIN data
              THEN Raise("TypeError")
              ELSE Return([data EXCEPT
                             !.clues = LockAll(data.clues),
                             !.npcs = AssignAvatars(data.npcs, imgs)])

-----------------------------------------------------------------------------
(* judgeInput, src/services/geminiService.ts:157-229 *)

JudgeFallback ==
    [answerType |-> "CLARIFICATION", reply |-> "signal interrupted",
     unlockedClueId |-> NullStr]

\* mutant: no catch, the provider's failure reaches the caller
judgeInputNoCatch(m, userInput, targetId, history, resp) ==
    IF resp.kind = "throw" THEN Raise(resp.message)
    ELSE IF Falsy(resp.text) THEN Raise("No judge response")
    ELSE JSONparse(resp.text)

judgeInput(m, userInput, targetId, history, resp) ==
    IF resp.kind = "throw" THEN Return(JudgeFallback)
    ELSE IF Falsy(resp.text) THEN Return(JudgeFallback)
    ELSE LET parsed == JSONparse(resp.text) IN
         IF parsed.threw THEN Return(JudgeFallback) ELSE Return(parsed.value)

-----------------------------------------------------------------------------
(* evaluateSolution, src/services/geminiService.ts:234-287 *)

EvalFallback ==
    [type |-> "BAD", title |-> "chaos", narrative |-> "no conclusion"]

\* mutant: no catch, the provider's failure reaches the caller
evaluateSolutionNoCatch(m, playerTheory, resp) ==
    IF "endings" \notin DOMAIN m THEN Raise("TypeError")
    ELSE IF resp.kind = "throw" THEN Raise(resp.message)
    ELSE JSONparse(resp.text)

\* The prompt is built before the try (lines 251-266): mystery.endings.find
\* throws a TypeError when the mystery has no endings, and no request is
\* made (resp is then not looked at).
evaluateSolution(m, playerTheory, resp) ==
    IF "endings" \notin DOMAIN m THEN Raise("TypeError")
    ELSE IF resp.kind = "throw" THEN Return(EvalFallback)
    ELSE LET parsed == JSONparse(resp.text) IN
         IF parsed.threw THEN Return(EvalFallback) ELSE Return(parsed.value)

-----------------------------------------------------------------------------
(* Inputs explored: what the provider may answer and what the player may   *)
(* type.  The provider is untrusted: it may violate the response schema.   *)

Endings ==
    << [type |-> "GOOD", title |-> "g", description |-> "gd", condition |-> "gc"],
       [type |-> "NEUTRAL", title |-> "n", description |-> "nd", condition |-> "nc"],
       [type |-> "BAD", title |-> "b", description |-> "bd", condition |-> "bc"] >>

\* raw provider data: one clue claims to be unlocked, one has no isLocked
RawMysteryA ==
    [title |-> "A", situation |-> "s1", solution |-> "x1", difficulty |-> "hard",
     npcs |-> << [id |-> "n1", name |-> "Ann", role |-> "witness",
                  description |-> "d", personality |-> "p",
                  visualSummary |-> "tall"] >>,
     clues |-> << [id |-> "c1", title |-> "knife", description |-> "k",
                   isLocked |-> FALSE],
                  [id |-> "c2", title |-> "letter", description |-> "l"] >>,
     endings |-> Endings]

RawMysteryB ==
    [title |-> "B", situation |-> "s2", solution |-> "x2", difficulty |-> "easy",
     npcs |-> << [id |-> "n3", name |-> "Cyd", role |-> "expert",
                  description |-> "d", personality |-> "p",
                  visualSummary |-> ""] >>,
     clues |-> << [id |-> "c1", title |-> "key", description |-> "k",
                   isLocked |-> TRUE] >>,
     endings |-> Endings]

\* schema-violating data: no clues array
RawMysteryNoClues ==
    [title |-> "C", situation |-> "s3", solution |-> "x3", difficulty |-> "easy",
     npcs |-> <<>>, endings |-> Endings]

\* schema-violating data that generateMystery accepts: no endings array
RawMysteryNoEndings ==
    [title |-> "D", situation |-> "s4", solution |-> "x4", difficulty |-> "easy",
     npcs |-> <<>>, clues |-> <<>>]

KeyReselect == "KEY_RESELECT_REQUIRED"

\* the messages of the errors with which the provider rejects a request:
\* for lack of capacity, and because the key is refused
QuotaMessage == "quota exhausted"
InvalidKeyMessage == "API key not valid"

GenResponses ==
    { Throw(KeyReselect), Throw(QuotaMessage), Throw(InvalidKeyMessage),
      NoText, Garbage,
      JsonText(RawMysteryA), JsonText(RawMysteryB), JsonText(RawMysteryNoClues),
      JsonText(RawMysteryNoEndings) }

\* the last one is the JSON text `null`
JudgeResponses ==
    { Throw(QuotaMessage), Throw(InvalidKeyMessage), NoText, Garbage,
      JsonText([answerType |-> "YES", reply |-> "r1", unlockedClueId |-> "c1"]),
      JsonText([answerType |-> "NPC_DIALOGUE", reply |-> "r2"]),
      JsonText([answerType |-> "MAYBE", reply |-> "r3", unlockedClueId |-> "cX"]),
      JsonText(Null) }

\* the last one is the JSON text `null`, which JSON.parse accepts
EvalResponses ==
    { Throw(QuotaMessage), Throw(InvalidKeyMessage), NoText, Garbage,
      JsonText([type |-> "GOOD", title |-> "solved", narrative |-> "n1"]),
      JsonText(Null) }

\* the responses on which the provider call counts as failed
Failed(resp) == resp.kind = "throw" \/ "json" \notin DOMAIN resp.text

Utterances == { <<>>, <<" ">>, <<"q">> }

Theories == { <<" ">>, <<"t">> }

\* number of NPCs in a generation response (0 when it carries no NPC list)
NpcCount(resp) ==
    IF resp.kind = "text" /\ "json" \in DOMAIN resp.text
       /\ "npcs" \in DOMAIN resp.text.json
    THEN Len(resp.text.json.npcs) ELSE 0

-----------------------------------------------------------------------------
(* Calls in flight *)

RemoveAt(q, i) == [j \in 1..(Len(q) - 1) |-> IF j < i THEN q[j] ELSE q[j + 1]]

InFlight(k) == {i \in 1..Len(inflight) : inflight[i].kind = k}

-----------------------------------------------------------------------------
(* App, src/App.tsx:342-700 *)

Init ==
    /\ hasApiKey = FALSE
    /\ phase = "IDLE"
    /\ mystery = Null
    /\ messages = <<>>
    /\ isProcessing = FALSE
    /\ activeTarget = "GM"
    /\ unlockedClues = {}
    /\ finalTheory = <<>>
    /\ endingResult = Null
    /\ inflight = <<>>
    /\ session = 0
    /\ turns = 0

\* the main view is rendered only with a key (App.tsx:483)
MainView == hasApiKey

\* checkApiKey, the mount effect (App.tsx:354-364).  hasKey is what the host
\* answers: hasSelectedApiKey() where window.aistudio is there, else whether
\* process.env.API_KEY is set.  The promise may resolve at any moment of the
\* session; the host is not part of the state.
checkApiKey ==
    /\ \E hasKey \in BOOLEAN :
          /\ hasApiKey' = (IF hasKey THEN TRUE ELSE hasApiKey)
    /\ UNCHANGED <<sessionState, isProcessing, inflight, session, turns>>

\* handleSelectKey, the key screen's button (App.tsx:366-372, 498-503).
\* selected: window.aistudio is there and openSelectKey() resolved; without
\* window.aistudio, or when openSelectKey() rejects, nothing is set.  Nothing
\* is written before the await, so click and resolution are one step.
handleSelectKey ==
    /\ ~hasApiKey
    /\ \E selected \in BOOLEAN :
          /\ hasApiKey' = (IF selected THEN TRUE ELSE hasApiKey)
    /\ UNCHANGED <<sessionState, isProcessing, inflight, session, turns>>

\* mutant: the reset forgets the unlocked clues and the theory text
startNewGameKeepsProgress ==
    /\ session < MaxGames
    /\ Len(inflight) < MaxInflight
    /\ phase' = "LOADING"
    /\ messages' = <<>>
    /\ mystery' = Null
    /\ endingResult' = Null
    /\ activeTarget' = "GM"
    /\ isProcessing' = TRUE
    /\ session' = session + 1
    /\ inflight' = Append(inflight, [kind |-> "gen", session |-> session + 1,
                                   model |-> MODEL_NAME])
    /\ UNCHANGED <<hasApiKey, turns, unlockedClues, finalTheory>>

\* startNewGame up to its await (App.tsx:374-385)
startNewGame ==
    /\ session < MaxGames
    /\ Len(inflight) < MaxInflight
    /\ phase' = "LOADING"
    /\ messages' = <<>>
    /\ mystery' = Null
    /\ unlockedClues' = {}
    /\ endingResult' = Null
    /\ finalTheory' = <<>>
    /\ activeTarget' = "GM"
    /\ isProcessing' = TRUE
    /\ session' = session + 1
    /\ inflight' = Append(inflight, [kind |-> "gen", session |-> session + 1,
                                   model |-> MODEL_NAME])
    /\ UNCHANGED <<hasApiKey, turns>>

\* the effect that starts a game in IDLE once a key is there (App.tsx:408-412)
AutoStart ==
    /\ hasApiKey /\ phase = "IDLE"
    /\ startNewGame

\* the ending screen's "new game" button (App.tsx:658, 675-680)
NewGameButton ==
    /\ MainView
    /\ phase = "ENDED" /\ endingResult # Null
    /\ startNewGame

\* the first message of a session (App.tsx:387-393)
InitMessage(data) ==
    [id |-> "init-situation", type |-> "ai_response",
     content |-> "[case] " \o Get(data, "situation"),
     speakerName |-> "case summary", answerType |-> "CLARIFICATION"]

\* mutant: a generation that failed on MODEL_NAME is sent to another model,
\* whatever the error
GenerateSettledFallsBackOnAnyError(i, resp, imgs) ==
    LET r == generateMystery(resp, imgs) IN
    IF r.threw /\ inflight[i].model = MODEL_NAME
    THEN /\ inflight' = Append(RemoveAt(inflight, i),
                               [inflight[i] EXCEPT !.model = "model-b"])
         /\ UNCHANGED <<hasApiKey, sessionState, isProcessing, session, turns>>
    ELSE /\ IF r.threw THEN UNCHANGED mystery ELSE mystery' = r.value
         /\ IF r.threw THEN UNCHANGED messages
            ELSE messages' = << InitMessage(r.value) >>
         /\ phase' = (IF r.threw THEN "FAILED" ELSE "PLAYING")
         /\ hasApiKey' = (IF r.threw /\ r.message = KeyReselect
                          THEN FALSE ELSE hasApiKey)
         /\ isProcessing' = FALSE
         /\ inflight' = RemoveAt(inflight, i)
         /\ UNCHANGED <<activeTarget, unlockedClues, finalTheory,
                        endingResult, session, turns>>

\* mutant: no finally: a generation that failed leaves the flag set
GenerateSettledStuckProcessing(i, resp, imgs) ==
    LET r == generateMystery(resp, imgs) IN
    /\ IF ~r.threw
       THEN /\ mystery' = r.value
            /\ messages' = << InitMessage(r.value) >>
            /\ phase' = "PLAYING"
            /\ UNCHANGED hasApiKey
       ELSE /\ hasApiKey' = (IF r.message = KeyReselect THEN FALSE ELSE hasApiKey)
            /\ phase' = "FAILED"
            /\ UNCHANGED <<mystery, messages>>
    /\ isProcessing' = (IF r.threw THEN isProcessing ELSE FALSE)
    /\ inflight' = RemoveAt(inflight, i)
    /\ UNCHANGED <<activeTarget, unlockedClues, finalTheory,
                   endingResult, session, turns>>

\* mutant: the catch forgets setPhase(FAILED)
GenerateSettledNoFailedPhase(i, resp, imgs) ==
    LET r == generateMystery(resp, imgs) IN
    /\ IF ~r.threw
       THEN /\ mystery' = r.value
            /\ messages' = << InitMessage(r.value) >>
            /\ phase' = "PLAYING"
            /\ UNCHANGED hasApiKey
       ELSE /\ hasApiKey' = (IF r.message = KeyReselect THEN FALSE ELSE hasApiKey)
            /\ UNCHANGED <<phase, mystery, messages>>
    /\ isProcessing' = FALSE
    /\ inflight' = RemoveAt(inflight, i)
    /\ UNCHANGED <<activeTarget, unlockedClues, finalTheory,
                   endingResult, session, turns>>

\* startNewGame after generateMystery settles (App.tsx:385-405)
GenerateSettled(i, resp, imgs) ==
    LET r == generateMystery(resp, imgs) IN
    /\ IF ~r.threw
       THEN /\ mystery' = r.value
            /\ messages' = << InitMessage(r.value) >>
            /\ phase' = "PLAYING"
            /\ UNCHANGED hasApiKey
       ELSE /\ hasApiKey' = (IF r.message = KeyReselect THEN FALSE ELSE hasApiKey)
            /\ phase' = "FAILED"
            /\ UNCHANGED <<mystery, messages>>
    /\ isProcessing' = FALSE
    /\ inflight' = RemoveAt(inflight, i)
    /\ UNCHANGED <<activeTarget, unlockedClues, finalTheory,
                   endingResult, session, turns>>

GenerateSettle ==
    \E i \in InFlight("gen") : \E resp \in GenResponses :
        \E imgs \in [1..NpcCount(resp) -> ImageResponses] :
            GenerateSettled(i, resp, imgs)

\* the retry button of the second App's FAILED screen (App.tsx:682-689).
\* The first App renders no such screen and no such button: its FAILED
\* phase is part of FirstAppSpec, where no action leaves it.
Retry ==
    /\ MainView
    /\ phase = "FAILED"
    /\ phase' = "IDLE"
    /\ UNCHANGED <<hasApiKey, mystery, messages, isProcessing,
                   activeTarget, unlockedClues, finalTheory, endingResult,
                   inflight, session, turns>>

-----------------------------------------------------------------------------
(* Interrogation turns *)

\* App.tsx:417-418
TargetNPC(m, target) == FindById(m.npcs, target)

TargetName(m, target) ==
    IF target = "GM" THEN "GM view"
    ELSE LET npc == TargetNPC(m, target) IN
         IF npc # Null /\ Truthy(Get(npc, "name")) THEN npc.name ELSE "unknown"

\* targetNPC?.avatarUrl
TargetAvatar(m, target) ==
    LET npc == TargetNPC(m, target) IN
    IF npc = Null THEN Undefined ELSE Get(npc, "avatarUrl")

\* App.tsx:420-425
UserMessage(text, targetName) ==
    [id |-> "now", type |-> "user", content |-> text,
     speakerName |-> "to " \o targetName]

\* mutant: the slice is forgotten
HistoryContextWholeLog(msgs) == [i \in 1..Len(msgs) |-> msgs[i].content]

\* messages.slice(-5).map(m => m.content)   (App.tsx:429)
HistoryContext(msgs) ==
    LET tail == SliceLast(msgs, 5) IN [i \in 1..Len(tail) |-> tail[i].content]

\* the closure of one handlePlayerInput invocation, awaiting judgeInput
JudgeCall(text) ==
    [kind |-> "judge", session |-> session, model |-> MODEL_NAME,
     mystery |-> mystery,
     userInput |-> text, targetId |-> activeTarget,
     targetName |-> TargetName(mystery, activeTarget),
     avatarUrl |-> TargetAvatar(mystery, activeTarget),
     unlockedClues |-> unlockedClues,
     history |-> HistoryContext(messages)]

\* mutant: the guard forgets the phase
InputAcceptedAnyPhase == mystery # Null

\* the guard of handlePlayerInput (App.tsx:415)
InputAccepted == mystery # Null /\ phase = "PLAYING"

\* mutant: the user message replaces the log instead of being appended
handlePlayerInputOverwritesLog(text) ==
    IF ~InputAccepted
    THEN UNCHANGED <<messages, isProcessing, inflight>>
    ELSE /\ messages' = << UserMessage(text, TargetName(mystery, activeTarget)) >>
         /\ isProcessing' = TRUE
         /\ inflight' = Append(inflight, JudgeCall(text))

\* handlePlayerInput up to its await (App.tsx:414-430)
handlePlayerInput(text) ==
    IF ~InputAccepted
    THEN UNCHANGED <<messages, isProcessing, inflight>>
    ELSE /\ messages' = Append(messages,
                               UserMessage(text, TargetName(mystery, activeTarget)))
         /\ isProcessing' = TRUE
         /\ inflight' = Append(inflight, JudgeCall(text))

\* the guard of InputArea.handleSubmit (InputArea.tsx:15)
SubmitPasses(input) == Trim(input) # <<>> /\ phase = "PLAYING"

\* the explored runs have room for one more turn
RoomForTurn == Len(inflight) < MaxInflight /\ turns < MaxTurns

\* InputArea.handleSubmit (InputArea.tsx:13-18): the form is submitted with
\* `input` typed; the guards of the two handlers decide what happens.
handleSubmit(input) ==
    /\ MainView
    /\ (SubmitPasses(input) /\ InputAccepted) => RoomForTurn
    /\ IF SubmitPasses(input)
       THEN handlePlayerInput(input)
       ELSE UNCHANGED <<messages, isProcessing, inflight>>
    /\ turns' = (IF SubmitPasses(input) /\ InputAccepted
                 THEN turns + 1 ELSE turns)
    /\ UNCHANGED <<hasApiKey, phase, mystery, activeTarget,
                   unlockedClues, finalTheory, endingResult, session>>

SubmitInput == \E input \in Utterances : handleSubmit(input)

\* App.tsx:436-440
ClueAlert(clue) ==
    [id |-> "clue-now", type |-> "clue_alert",
     content |-> "clue obtained: " \o Get(clue, "title")]

\* mutant: the reply is labelled with the target selected when it arrives
AiMessageOfCurrentTarget(judgment, c) ==
    [id |-> "now+1", type |-> "ai_response",
     content |-> Get(judgment, "reply"),
     answerType |-> Get(judgment, "answerType"),
     speakerName |-> IF mystery = Null THEN "unknown"
                     ELSE TargetName(mystery, activeTarget),
     avatarUrl |-> IF mystery = Null THEN Undefined
                   ELSE TargetAvatar(mystery, activeTarget)]

\* App.tsx:444-451
AiMessage(judgment, c) ==
    [id |-> "now+1", type |-> "ai_response",
     content |-> Get(judgment, "reply"),
     answerType |-> Get(judgment, "answerType"),
     speakerName |-> c.targetName, avatarUrl |-> c.avatarUrl]

\* the test of App.tsx:432, on the closure's unlockedClues
ShouldUnlock(id, c) == Truthy(id) /\ id \notin c.unlockedClues

\* mutant: the unlock is also written into the stored clue
JudgeSettledUnlocksInPlace(i, resp) ==
    LET c == inflight[i]
        r == judgeInput(c.mystery, c.userInput, c.targetId, c.history, resp)
        caught == r.threw \/ r.value = Null
        id == IF caught THEN Undefined ELSE Get(r.value, "unlockedClueId")
        clue == FindById(c.mystery.clues, id)
    IN
    /\ IF caught
       THEN /\ hasApiKey' = (IF r.threw /\ r.message = KeyReselect
                             THEN FALSE ELSE hasApiKey)
            /\ UNCHANGED <<unlockedClues, messages, mystery>>
       ELSE /\ unlockedClues' = (IF ShouldUnlock(id, c)
                                 THEN unlockedClues \cup {id}
                                 ELSE unlockedClues)
            /\ mystery' = (IF ShouldUnlock(id, c) /\ clue # Null /\ mystery # Null
                           THEN [mystery EXCEPT !.clues =
                                   [k \in 1..Len(mystery.clues) |->
                                      IF Get(mystery.clues[k], "id") = id
                                      THEN [mystery.clues[k] EXCEPT !.isLocked = FALSE]
                                      ELSE mystery.clues[k]]]
                           ELSE mystery)
            /\ messages' = messages
                           \o (IF ShouldUnlock(id, c) /\ clue # Null
                               THEN << ClueAlert(clue) >> ELSE <<>>)
                           \o << AiMessage(r.value, c) >>
            /\ UNCHANGED hasApiKey
    /\ isProcessing' = FALSE
    /\ inflight' = RemoveAt(inflight, i)
    /\ UNCHANGED <<phase, activeTarget, finalTheory,
                   endingResult, session, turns>>

\* mutant: no finally: a turn whose judgment failed leaves the flag set
JudgeSettledStuckProcessing(i, resp) ==
    LET c == inflight[i]
        r == judgeInput(c.mystery, c.userInput, c.targetId, c.history, resp)
        caught == r.threw \/ r.value = Null
        id == IF caught THEN Undefined ELSE Get(r.value, "unlockedClueId")
        clue == FindById(c.mystery.clues, id)
    IN
    /\ IF caught
       THEN /\ hasApiKey' = (IF r.threw /\ r.message = KeyReselect
                             THEN FALSE ELSE hasApiKey)
            /\ UNCHANGED <<unlockedClues, messages>>
       ELSE /\ unlockedClues' = (IF ShouldUnlock(id, c)
                                 THEN unlockedClues \cup {id}
                                 ELSE unlockedClues)
            /\ messages' = messages
                           \o (IF ShouldUnlock(id, c) /\ clue # Null
                               THEN << ClueAlert(clue) >> ELSE <<>>)
                           \o << AiMessage(r.value, c) >>
            /\ UNCHANGED hasApiKey
    /\ isProcessing' = (IF Failed(resp) THEN isProcessing ELSE FALSE)
    /\ inflight' = RemoveAt(inflight, i)
    /\ UNCHANGED <<phase, mystery, activeTarget, finalTheory,
                   endingResult, session, turns>>

\* mutant: the unlock is written from the set the closure captured
JudgeSettledStaleSet(i, resp) ==
    LET c == inflight[i]
        r == judgeInput(c.mystery, c.userInput, c.targetId, c.history, resp)
        caught == r.threw \/ r.value = Null
        id == IF caught THEN Undefined ELSE Get(r.value, "unlockedClueId")
        clue == FindById(c.mystery.clues, id)
    IN
    /\ IF caught
       THEN /\ hasApiKey' = (IF r.threw /\ r.message = KeyReselect
                             THEN FALSE ELSE hasApiKey)
            /\ UNCHANGED <<unlockedClues, messages>>
       ELSE /\ unlockedClues' = (IF ShouldUnlock(id, c)
                                 THEN c.unlockedClues \cup {id}
                                 ELSE unlockedClues)
            /\ messages' = messages
                           \o (IF ShouldUnlock(id, c) /\ clue # Null
                               THEN << ClueAlert(clue) >> ELSE <<>>)
                           \o << AiMessage(r.value, c) >>
            /\ UNCHANGED hasApiKey
    /\ isProcessing' = FALSE
    /\ inflight' = RemoveAt(inflight, i)
    /\ UNCHANGED <<phase, mystery, activeTarget, finalTheory,
                   endingResult, session, turns>>

\* mutant: a judgment whose provider call failed is asked for again
JudgeSettledRetries(i, resp) ==
    LET c == inflight[i]
        r == judgeInput(c.mystery, c.userInput, c.targetId, c.history, resp)
        caught == r.threw \/ r.value = Null
        id == IF caught THEN Undefined ELSE Get(r.value, "unlockedClueId")
        clue == FindById(c.mystery.clues, id)
    IN
    IF Failed(resp)
    THEN /\ inflight' = Append(RemoveAt(inflight, i), c)
         /\ UNCHANGED <<hasApiKey, sessionState, isProcessing, session, turns>>
    ELSE /\ IF caught
            THEN UNCHANGED <<hasApiKey, unlockedClues, messages>>
            ELSE /\ unlockedClues' = (IF ShouldUnlock(id, c)
                                      THEN unlockedClues \cup {id}
                                      ELSE unlockedClues)
                 /\ messages' = messages
                                \o (IF ShouldUnlock(id, c) /\ clue # Null
                                    THEN << ClueAlert(clue) >> ELSE <<>>)
                                \o << AiMessage(r.value, c) >>
                 /\ UNCHANGED hasApiKey
         /\ isProcessing' = FALSE
         /\ inflight' = RemoveAt(inflight, i)
         /\ UNCHANGED <<phase, mystery, activeTarget, finalTheory,
                        endingResult, session, turns>>

\* handlePlayerInput after judgeInput settles (App.tsx:430-461); c is the
\* invocation's closure.  A judgment of null makes line 432 throw a
\* TypeError, which the catch of line 452 swallows like any other error.
JudgeSettled(i, resp) ==
    LET c == inflight[i]
        r == judgeInput(c.mystery, c.userInput, c.targetId, c.history, resp)
        caught == r.threw \/ r.value = Null
        id == IF caught THEN Undefined ELSE Get(r.value, "unlockedClueId")
        clue == FindById(c.mystery.clues, id)
    IN
    /\ IF caught
       THEN /\ hasApiKey' = (IF r.threw /\ r.message = KeyReselect
                             THEN FALSE ELSE hasApiKey)
            /\ UNCHANGED <<unlockedClues, messages>>
       ELSE /\ unlockedClues' = (IF ShouldUnlock(id, c)
                                 THEN unlockedClues \cup {id}
                                 ELSE unlockedClues)
            /\ messages' = messages
                           \o (IF ShouldUnlock(id, c) /\ clue # Null
                               THEN << ClueAlert(clue) >> ELSE <<>>)
                           \o << AiMessage(r.value, c) >>
            /\ UNCHANGED hasApiKey
    /\ isProcessing' = FALSE
    /\ inflight' = RemoveAt(inflight, i)
    /\ UNCHANGED <<phase, mystery, activeTarget, finalTheory,
                   endingResult, session, turns>>

JudgeSettle ==
    \E i \in InFlight("judge") : \E resp \in JudgeResponses : JudgeSettled(i, resp)

\* the target buttons of the sidebar (App.tsx:532-566)
Targets == {"GM"} \cup
           (IF mystery = Null THEN {}
            ELSE {Get(mystery.npcs[i], "id") : i \in 1..Len(mystery.npcs)})

setActiveTarget(t) ==
    /\ MainView
    /\ phase = "PLAYING" /\ mystery # Null
    /\ activeTarget' = t
    /\ UNCHANGED <<hasApiKey, phase, mystery, messages,
                   isProcessing, unlockedClues, finalTheory, endingResult,
                   inflight, session, turns>>

SelectTarget == \E t \in Targets : setActiveTarget(t)

-----------------------------------------------------------------------------
(* Solving *)

\* mutant: the solve button is shown in every phase of a stored mystery
RequestSolveAnyPhase ==
    /\ MainView
    /\ mystery # Null
    /\ phase' = "SOLVING"
    /\ UNCHANGED <<hasApiKey, mystery, messages, isProcessing,
                   activeTarget, unlockedClues, finalTheory, endingResult,
                   inflight, session, turns>>

\* the sidebar's solve button (App.tsx:594-603)
RequestSolve ==
    /\ MainView
    /\ phase = "PLAYING"
    /\ phase' = "SOLVING"
    /\ UNCHANGED <<hasApiKey, mystery, messages, isProcessing,
                   activeTarget, unlockedClues, finalTheory, endingResult,
                   inflight, session, turns>>

\* history: the evaluations in flight are marked as cancelled (the code
\* keeps no such mark; it is recorded to tell which results are stale)
MarkCancelled(q) ==
    [j \in 1..Len(q) |->
        IF q[j].kind = "eval" THEN [q[j] EXCEPT !.cancelled = TRUE] ELSE q[j]]

\* mutant: cancelling discards the theory typed so far
CancelSolveClearsTheory ==
    /\ MainView
    /\ phase = "SOLVING"
    /\ phase' = "PLAYING"
    /\ finalTheory' = <<>>
    /\ inflight' = MarkCancelled(inflight)
    /\ UNCHANGED <<hasApiKey, mystery, messages, isProcessing,
                   activeTarget, unlockedClues, endingResult,
                   session, turns>>

\* the solving screen's "keep investigating" button (App.tsx:642-647)
CancelSolve ==
    /\ MainView
    /\ phase = "SOLVING"
    /\ phase' = "PLAYING"
    /\ inflight' = MarkCancelled(inflight)
    /\ UNCHANGED <<hasApiKey, mystery, messages, isProcessing,
                   activeTarget, unlockedClues, finalTheory, endingResult,
                   session, turns>>

\* the theory textarea (App.tsx:635-640)
setFinalTheory(t) ==
    /\ MainView
    /\ phase = "SOLVING"
    /\ finalTheory' = t
    /\ UNCHANGED <<hasApiKey, phase, mystery, messages,
                   isProcessing, activeTarget, unlockedClues, endingResult,
                   inflight, session, turns>>

TypeTheory == \E t \in Theories : setFinalTheory(t)

\* mutant: the guard forgets the theory
SolveAcceptedAnyTheory == mystery # Null

\* the guard of handleSolveAttempt (App.tsx:465)
SolveAccepted == mystery # Null /\ Trim(finalTheory) # <<>>

\* handleSolveAttempt up to its await (App.tsx:464-468)
handleSolveAttempt ==
    IF ~SolveAccepted
    THEN UNCHANGED <<isProcessing, inflight>>
    ELSE /\ isProcessing' = TRUE
         /\ inflight' = Append(inflight,
                [kind |-> "eval", session |-> session, model |-> MODEL_NAME,
                 mystery |-> mystery,
                 playerTheory |-> finalTheory, cancelled |-> FALSE])

\* the submit button of the solving screen (App.tsx:648-654); it is
\* disabled while a call is processing.
SubmitSolve ==
    /\ MainView
    /\ phase = "SOLVING"
    /\ ~isProcessing
    /\ SolveAccepted => Len(inflight) < MaxInflight
    /\ handleSolveAttempt
    /\ UNCHANGED <<hasApiKey, phase, mystery, messages,
                   activeTarget, unlockedClues, finalTheory, endingResult,
                   session, turns>>

\* handleSolveAttempt after evaluateSolution settles (App.tsx:468-480)
EvalSettled(i, resp) ==
    LET c == inflight[i]
        r == evaluateSolution(c.mystery, c.playerTheory, resp)
    IN
    /\ IF r.threw
       THEN /\ hasApiKey' = (IF r.message = KeyReselect THEN FALSE ELSE hasApiKey)
            /\ UNCHANGED <<endingResult, phase>>
       ELSE /\ endingResult' = r.value
            /\ phase' = "ENDED"
            /\ UNCHANGED hasApiKey
    /\ isProcessing' = FALSE
    /\ inflight' = RemoveAt(inflight, i)
    /\ UNCHANGED <<mystery, messages, activeTarget, unlockedClues,
                   finalTheory, session, turns>>

EvalSettle ==
    \E i \in InFlight("eval") : \E resp \in EvalResponses : EvalSettled(i, resp)

-----------------------------------------------------------------------------

Next ==
    \/ checkApiKey
    \/ handleSelectKey
    \/ AutoStart
    \/ NewGameButton
    \/ GenerateSettle
    \/ Retry
    \/ SubmitInput
    \/ JudgeSettle
    \/ SelectTarget
    \/ RequestSolve
    \/ CancelSolve
    \/ TypeTheory
    \/ SubmitSolve
    \/ EvalSettle

Spec == Init /\ [][Next]_vars

-----------------------------------------------------------------------------
(* The first App, src/App.tsx:9-320.  It has no key state and no key       *)
(* screen: its main view is rendered from the mount on, which the model    *)
(* writes as hasApiKey = TRUE throughout.  Its state (lines 10-20) starts  *)
(* with the same values as the second App's.  The handlers and controls    *)
(* whose code is the same in both Apps are the definitions above:          *)
(* startNewGame up to its await (lines 22-33), the ending screen's button  *)
(* (278, 296-301), handlePlayerInput up to its await under InputArea       *)
(* (58-80, 308-312), the target buttons (147-189), the solve button        *)
(* (218-227), the solving screen's return button (262-267) and its         *)
(* textarea (255-260).                                                     *)

FirstAppInit ==
    /\ hasApiKey = TRUE
    /\ phase = "IDLE"
    /\ mystery = Null
    /\ messages = <<>>
    /\ isProcessing = FALSE
    /\ activeTarget = "GM"
    /\ unlockedClues = {}
    /\ finalTheory = <<>>
    /\ endingResult = Null
    /\ inflight = <<>>
    /\ session = 0
    /\ turns = 0

\* the start effect (App.tsx:54-56): its one dependency, startNewGame, is a
\* useCallback with no dependencies, so the effect runs on the mount and
\* never again, whatever the phase.
FirstAppStart ==
    /\ session = 0
    /\ startNewGame

\* startNewGame after generateMystery settles (App.tsx:33-51): the catch
\* sets FAILED and nothing else, whatever the error says.
FirstAppGenerateSettled(i, resp, imgs) ==
    LET r == generateMystery(resp, imgs) IN
    /\ IF ~r.threw
       THEN /\ mystery' = r.value
            /\ messages' = << InitMessage(r.value) >>
            /\ phase' = "PLAYING"
       ELSE /\ phase' = "FAILED"
            /\ UNCHANGED <<mystery, messages>>
    /\ isProcessing' = FALSE
    /\ inflight' = RemoveAt(inflight, i)
    /\ UNCHANGED <<hasApiKey, activeTarget, unlockedClues, finalTheory,
                   endingResult, session, turns>>

FirstAppGenerateSettle ==
    \E i \in InFlight("gen") : \E resp \in GenResponses :
        \E imgs \in [1..NpcCount(resp) -> ImageResponses] :
            FirstAppGenerateSettled(i, resp, imgs)

\* handlePlayerInput after judgeInput settles (App.tsx:80-111); c is the
\* invocation's closure.  A judgment of null makes line 83 throw a
\* TypeError, which the catch of line 107 logs like any other error.
FirstAppJudgeSettled(i, resp) ==
    LET c == inflight[i]
        r == judgeInput(c.mystery, c.userInput, c.targetId, c.history, resp)
        caught == r.threw \/ r.value = Null
        id == IF caught THEN Undefined ELSE Get(r.value, "unlockedClueId")
        clue == FindById(c.mystery.clues, id)
    IN
    /\ IF caught
       THEN UNCHANGED <<unlockedClues, messages>>
       ELSE /\ unlockedClues' = (IF ShouldUnlock(id, c)
                                 THEN unlockedClues \cup {id}
                                 ELSE unlockedClues)
            /\ messages' = messages
                           \o (IF ShouldUnlock(id, c) /\ clue # Null
                               THEN << ClueAlert(clue) >> ELSE <<>>)
                           \o << AiMessage(r.value, c) >>
    /\ isProcessing' = FALSE
    /\ inflight' = RemoveAt(inflight, i)
    /\ UNCHANGED <<hasApiKey, phase, mystery, activeTarget, finalTheory,
                   endingResult, session, turns>>

FirstAppJudgeSettle ==
    \E i \in InFlight("judge") : \E resp \in JudgeResponses :
        FirstAppJudgeSettled(i, resp)

\* handleSolveAttempt up to its await (App.tsx:114-120): the phase is set
\* to ENDED before the evaluation is asked for.
FirstAppHandleSolveAttempt ==
    IF ~SolveAccepted
    THEN UNCHANGED <<isProcessing, phase, inflight>>
    ELSE /\ isProcessing' = TRUE
         /\ phase' = "ENDED"
         /\ inflight' = Append(inflight,
                [kind |-> "eval", session |-> session, model |-> MODEL_NAME,
                 mystery |-> mystery,
                 playerTheory |-> finalTheory, cancelled |-> FALSE])

\* the submit button of the solving screen (App.tsx:268-274); it is
\* disabled while a call is processing.
FirstAppSubmitSolve ==
    /\ phase = "SOLVING"
    /\ ~isProcessing
    /\ SolveAccepted => Len(inflight) < MaxInflight
    /\ FirstAppHandleSolveAttempt
    /\ UNCHANGED <<hasApiKey, mystery, messages,
                   activeTarget, unlockedClues, finalTheory, endingResult,
                   session, turns>>

\* handleSolveAttempt after evaluateSolution settles (App.tsx:120-126): the
\* result is stored; an error is logged and leaves no ending.
FirstAppEvalSettled(i, resp) ==
    LET c == inflight[i]
        r == evaluateSolution(c.mystery, c.playerTheory, resp)
    IN
    /\ IF r.threw
       THEN UNCHANGED endingResult
       ELSE endingResult' = r.value
    /\ isProcessing' = FALSE
    /\ inflight' = RemoveAt(inflight, i)
    /\ UNCHANGED <<hasApiKey, phase, mystery, messages, activeTarget,
                   unlockedClues, finalTheory, session, turns>>

FirstAppEvalSettle ==
    \E i \in InFlight("eval") : \E resp \in EvalResponses :
        FirstAppEvalSettled(i, resp)

\* what the first App's view lets the player operate (App.tsx:131-317):
\* the target buttons and the solve button in PLAYING (lines 147, 218), the
\* solving screen in SOLVING (249-277), the ending screen's button in ENDED
\* with an ending (278-302) and, in every other case but LOADING, the play
\* area (303-314), whose InputArea renders nothing in FAILED
\* (InputArea.tsx) and submits nothing outside PLAYING.
FirstAppControls ==
    \/ NewGameButton
    \/ SubmitInput
    \/ SelectTarget
    \/ RequestSolve
    \/ CancelSolve
    \/ TypeTheory
    \/ FirstAppSubmitSolve

FirstAppNext ==
    \/ FirstAppStart
    \/ NewGameButton
    \/ FirstAppGenerateSettle
    \/ SubmitInput
    \/ FirstAppJudgeSettle
    \/ SelectTarget
    \/ RequestSolve
    \/ CancelSolve
    \/ TypeTheory
    \/ FirstAppSubmitSolve
    \/ FirstAppEvalSettle

FirstAppSpec == FirstAppInit /\ [][FirstAppNext]_vars

-----------------------------------------------------------------------------
(* Properties *)

\* the clue id named by the judgment a provider response yields for call c
JudgedClueId(c, resp) ==
    LET r == judgeInput(c.mystery, c.userInput, c.targetId, c.history, resp) IN
    IF r.threw \/ r.value = Null THEN Undefined
    ELSE Get(r.value, "unlockedClueId")

ClueTitles == {"knife", "letter", "key"}

\* number of clue_alert messages of the log for a clue title
AlertCount(msgs, title) ==
    Cardinality({k \in 1..Len(msgs) :
                    /\ msgs[k].type = "clue_alert"
                    /\ msgs[k].content = ClueAlert([title |-> title]).content})

AtMostOneAlertPerClue == \A t \in ClueTitles : AlertCount(messages, t) <= 1

\* C1: unlocking is idempotent at the session level, overlapping turns
\* included: a judge result naming an already-unlocked clue id leaves the
\* size of the unlocked-clue set unchanged, and the log never holds more
\* than one clue_alert message for a clue.
C1_UnlockIdempotent ==
    [][ /\ \A i \in InFlight("judge") : \A resp \in JudgeResponses :
              (JudgeSettled(i, resp)
               /\ JudgedClueId(inflight[i], resp) \in unlockedClues)
              => Cardinality(unlockedClues') = Cardinality(unlockedClues)
        /\ AtMostOneAlertPerClue' ]_vars

\* C2: once the player has returned from SOLVING to PLAYING, the result of
\* the evaluation that was in flight changes nothing of the session state.
C2_CancelledEvalDiscarded ==
    [][ \A i \in InFlight("eval") : \A resp \in EvalResponses :
            (inflight[i].cancelled /\ EvalSettled(i, resp))
            => UNCHANGED sessionState ]_vars

\* a step in which call i settles, whatever its kind
Settles(i) ==
    \/ /\ inflight[i].kind = "gen"
       /\ \E resp \in GenResponses :
            \E imgs \in [1..NpcCount(resp) -> ImageResponses] :
                GenerateSettled(i, resp, imgs)
    \/ /\ inflight[i].kind = "judge"
       /\ \E resp \in JudgeResponses : JudgeSettled(i, resp)
    \/ /\ inflight[i].kind = "eval"
       /\ \E resp \in EvalResponses : EvalSettled(i, resp)

\* C3: the result of a call issued under an earlier session is discarded:
\* it changes neither the log, the unlocked-clue set, the phase, the mystery
\* nor the ending result of the new session.
C3_StaleSessionResultDiscarded ==
    [][ \A i \in 1..Len(inflight) :
            (inflight[i].session < session /\ Settles(i))
            => UNCHANGED <<messages, unlockedClues, phase, mystery,
                           endingResult>> ]_vars

\* C4: at most one generation, judgment or evaluation call is in flight at
\* any time.
C4_AtMostOneCallInFlight == Len(inflight) <= 1

\* C5: player input is accepted only in PLAYING: in every other phase
\* neither guard lets an utterance through, and a submitted utterance
\* changes nothing (no message, no call, no state).
C5_InputOnlyWhilePlaying ==
    [][ phase # "PLAYING" =>
            /\ ~InputAccepted
            /\ \A input \in Utterances :
                  /\ ~SubmitPasses(input)
                  /\ handleSubmit(input) => UNCHANGED vars ]_vars

\* a non-blank utterance can be submitted while the player is solving
C5_Witness ==
    /\ phase = "SOLVING" /\ mystery # Null
    /\ ENABLED handleSubmit(<<"q">>)

\* every clue of m is locked
AllLocked(m) ==
    \A k \in 1..Len(m.clues) :
        "isLocked" \in DOMAIN m.clues[k] /\ m.clues[k].isLocked = TRUE

\* C6: in every mystery the generator returned, every clue has
\* isLocked = true, whatever the provider sent for that field.
C6_CluesStartLocked ==
    /\ mystery # Null => AllLocked(mystery)
    /\ \A i \in 1..Len(inflight) :
          "mystery" \in DOMAIN inflight[i] => AllLocked(inflight[i].mystery)

\* the stored mystery is the one whose provider data had an unlocked clue
\* and a clue without the field
C6_Witness == mystery # Null /\ mystery.title = "A" /\ phase = "PLAYING"

\* C7: when the judge result names a clue of the mystery that is not yet
\* unlocked, the unlocked-clue set then contains it and exactly one
\* clue_alert with that clue's title is appended (before the reply).
C7_UnlockAddsAndAlerts ==
    [][ \A i \in InFlight("judge") : \A resp \in JudgeResponses :
            LET id == JudgedClueId(inflight[i], resp) IN
            (/\ JudgeSettled(i, resp)
             /\ mystery # Null
             /\ FindById(mystery.clues, id) # Null
             /\ id \notin unlockedClues)
            => /\ id \in unlockedClues'
               /\ SubSeq(messages', 1, Len(messages') - 1)
                    = Append(messages, ClueAlert(FindById(mystery.clues, id))) ]_vars

\* the clue ids of the stored mystery
ClueIds == IF mystery = Null THEN {}
           ELSE {Get(mystery.clues[k], "id") : k \in 1..Len(mystery.clues)}

\* C8: the unlocked-clue set only holds ids of clues of the current mystery.
C8_UnlockedAreClues == unlockedClues \subseteq ClueIds

\* C9: judge never throws: when the provider call fails (exception, empty
\* or unparsable output) it returns exactly the fixed fallback, and the
\* turn ends with that reply and no unlock.
C9_JudgeFallback ==
    [][ \A i \in InFlight("judge") : \A resp \in JudgeResponses :
            LET c == inflight[i] IN
            (Failed(resp) /\ JudgeSettled(i, resp))
            => /\ judgeInput(c.mystery, c.userInput, c.targetId, c.history, resp)
                    = Return([answerType |-> "CLARIFICATION",
                              reply |-> "signal interrupted",
                              unlockedClueId |-> NullStr])
               /\ messages' = Append(messages, AiMessage(JudgeFallback, c))
               /\ UNCHANGED unlockedClues ]_vars

\* a turn has ended with the fallback reply
C9_Witness ==
    /\ messages # <<>>
    /\ messages[Len(messages)].type = "ai_response"
    /\ messages[Len(messages)].content = "signal interrupted"
    /\ messages[Len(messages)].answerType = "CLARIFICATION"

\* C10: evaluate never throws, and when the provider call fails (exception,
\* empty or unparsable output) it returns exactly the fixed BAD ending,
\* which ends the solve attempt.
C10_EvalFallback ==
    [][ \A i \in InFlight("eval") : \A resp \in EvalResponses :
            LET c == inflight[i]
                r == evaluateSolution(c.mystery, c.playerTheory, resp)
            IN EvalSettled(i, resp)
               => /\ ~r.threw
                  /\ Failed(resp)
                       => /\ r = Return([type |-> "BAD", title |-> "chaos",
                                         narrative |-> "no conclusion"])
                          /\ endingResult' = EvalFallback
                          /\ phase' = "ENDED" ]_vars

\* a solve attempt has ended with the fixed BAD ending
C10_Witness == phase = "ENDED" /\ endingResult = EvalFallback

\* C11: a solve attempt always terminates in a definite ending: whenever the
\* evaluation of a submitted theory settles, on success or on failure, the
\* session is in ENDED with an ending evaluation stored.
C11_SolveEndsWithEnding ==
    [][ \A i \in InFlight("eval") : \A resp \in EvalResponses :
            EvalSettled(i, resp)
            => (phase' = "ENDED" /\ endingResult' # Null) ]_vars

\* C12: "new game", from whatever phase it is invoked (ENDED in particular),
\* moves the session to LOADING with the message log empty, the
\* unlocked-clue set empty, the theory text empty and the active target
\* "GM"; a generation that then succeeds moves LOADING to PLAYING.
C12_NewGameResets ==
    [][ /\ session' # session
           => /\ phase' = "LOADING"
              /\ messages' = <<>>
              /\ unlockedClues' = {}
              /\ finalTheory' = <<>>
              /\ activeTarget' = "GM"
        /\ \A i \in InFlight("gen") : \A resp \in GenResponses :
              \A imgs \in [1..NpcCount(resp) -> ImageResponses] :
                 (/\ phase = "LOADING"
                  /\ ~generateMystery(resp, imgs).threw
                  /\ GenerateSettled(i, resp, imgs))
                 => phase' = "PLAYING" ]_vars

\* a second game was started from the ending of a first one in which a clue
\* was unlocked and a theory typed (a turn of the first game is still in
\* flight), and its generation has succeeded
C12_Witness ==
    /\ session = 2 /\ phase = "PLAYING"
    /\ \E i \in InFlight("judge") :
          /\ inflight[i].session = 1
          /\ inflight[i].unlockedClues # {}
    /\ finalTheory = <<>> /\ unlockedClues = {}

\* C13: on generator success the session goes from LOADING to PLAYING with
\* the mystery stored, the message log being exactly the one initial message
\* that summarizes the situation, the unlocked-clue set empty and the active
\* target "GM".
C13_SuccessEntersPlaying ==
    [][ \A i \in InFlight("gen") : \A resp \in GenResponses :
          \A imgs \in [1..NpcCount(resp) -> ImageResponses] :
             LET r == generateMystery(resp, imgs) IN
             (phase = "LOADING" /\ ~r.threw /\ GenerateSettled(i, resp, imgs))
             => /\ phase' = "PLAYING"
                /\ mystery' = r.value
                /\ messages' = << InitMessage(r.value) >>
                /\ unlockedClues' = {}
                /\ activeTarget' = "GM" ]_vars

\* C14: if the generator fails, the session goes from LOADING to FAILED
\* (never to PLAYING), with no mystery stored and the processing flag
\* cleared.
C14_FailureEntersFailed ==
    [][ \A i \in InFlight("gen") : \A resp \in GenResponses :
          \A imgs \in [1..NpcCount(resp) -> ImageResponses] :
             (/\ phase = "LOADING"
              /\ generateMystery(resp, imgs).threw
              /\ GenerateSettled(i, resp, imgs))
             => /\ phase' = "FAILED"
                /\ mystery' = Null
                /\ isProcessing' = FALSE ]_vars

\* a generation has failed: the session is in FAILED with nothing stored
C14_Witness ==
    /\ session >= 1 /\ phase = "FAILED"
    /\ mystery = Null /\ ~isProcessing /\ InFlight("gen") = {}

\* the provider refuses the credential
CredentialError(resp) == resp.kind = "throw" /\ resp.message = InvalidKeyMessage

\* C15: a credential error of the provider in any engine call (generation,
\* judgment or evaluation) sets the session's "credential required"
\* condition (the key is no longer taken as present, so that the
\* re-authentication screen shows); it is not handled like an ordinary
\* failure of the operation.
C15_CredentialErrorSurfaces ==
    [][ /\ \A i \in InFlight("gen") : \A resp \in GenResponses :
              (CredentialError(resp) /\ GenerateSettled(i, resp, <<>>))
              => hasApiKey' = FALSE
        /\ \A i \in InFlight("judge") : \A resp \in JudgeResponses :
              (CredentialError(resp) /\ JudgeSettled(i, resp))
              => hasApiKey' = FALSE
        /\ \A i \in InFlight("eval") : \A resp \in EvalResponses :
              (CredentialError(resp) /\ EvalSettled(i, resp))
              => hasApiKey' = FALSE ]_vars

-----------------------------------------------------------------------------
(* The fallback chain *)

\* the chain of the claims: the model the code names, then two more models
\* of the provider
Chain == << MODEL_NAME, "model-b", "model-c" >>

ChainIndex(m) == CHOOSE k \in 1..Len(Chain) : Chain[k] = m

\* lack of capacity, or an empty payload
TransientError(resp) ==
    \/ resp.kind = "throw" /\ resp.message = QuotaMessage
    \/ resp.kind = "text" /\ Falsy(resp.text)

\* what the provider may answer to a call of kind k
Responses(k) ==
    IF k = "gen" THEN GenResponses
    ELSE IF k = "judge" THEN JudgeResponses ELSE EvalResponses

\* a step in which call i settles with provider response resp
SettlesWith(i, resp) ==
    \/ /\ inflight[i].kind = "gen"
       /\ \E imgs \in [1..NpcCount(resp) -> ImageResponses] :
             GenerateSettled(i, resp, imgs)
    \/ /\ inflight[i].kind = "judge"
       /\ JudgeSettled(i, resp)
    \/ /\ inflight[i].kind = "eval"
       /\ EvalSettled(i, resp)

\* the request of call c is in flight in q, sent to model m
AttemptedOn(q, c, m) ==
    \E j \in 1..Len(q) : q[j] = [c EXCEPT !.model = m]

\* C16: fallback order.  With the chain [A,B,C], a request whose attempt on
\* A fails with a transient error is attempted on B, one whose attempt on B
\* fails so is attempted on C (the session waits meanwhile), and the answer
\* of the model that succeeds is the request's result.
C16_FallbackOrder ==
    [][ \A i \in 1..Len(inflight) : \A resp \in Responses(inflight[i].kind) :
          LET c == inflight[i]
              k == ChainIndex(c.model)
          IN
          /\ (TransientError(resp) /\ k < Len(Chain) /\ SettlesWith(i, resp))
             => /\ AttemptedOn(inflight', c, Chain[k + 1])
                /\ UNCHANGED sessionState
          /\ (/\ c.kind = "gen" /\ phase = "LOADING"
              /\ ~Failed(resp)
              /\ \E imgs \in [1..NpcCount(resp) -> ImageResponses] :
                    ~generateMystery(resp, imgs).threw
              /\ SettlesWith(i, resp))
             => /\ mystery' # Null
                /\ mystery'.title = resp.text.json.title ]_vars

\* C17: when the provider refuses the credential, the request is aborted at
\* once: no further attempt is made for it on any model; a generation
\* fails with that error and the session leaves LOADING for FAILED.
C17_CredentialAborts ==
    [][ \A i \in 1..Len(inflight) : \A resp \in Responses(inflight[i].kind) :
          (CredentialError(resp) /\ SettlesWith(i, resp))
          => /\ inflight' = RemoveAt(inflight, i)
             /\ inflight[i].kind = "gen"
                => /\ generateMystery(resp, <<>>) = Raise(InvalidKeyMessage)
                   /\ phase = "LOADING" => phase' = "FAILED" ]_vars

\* a generation has been aborted: nothing is in flight, nothing is stored
C17_Witness ==
    /\ phase = "FAILED" /\ inflight = <<>> /\ mystery = Null /\ hasApiKey

\* the call makes a request to the provider: evaluateSolution throws before
\* it makes one when the mystery has no endings
Requests(c) == c.kind = "eval" => "endings" \in DOMAIN c.mystery

\* the message of the error the catch of generateMystery observes for a
\* provider response (geminiService.ts:118-150; the class name for the
\* errors the runtime raises), Undefined when the try block raises none
ObservedError(resp) ==
    IF resp.kind = "throw" THEN resp.message
    ELSE IF Falsy(resp.text) THEN "No text returned from Gemini"
    ELSE IF "json" \notin DOMAIN resp.text THEN "SyntaxError"
    ELSE IF \/ resp.text.json = Null
            \/ "clues" \notin DOMAIN resp.text.json
            \/ "npcs" \notin DOMAIN resp.text.json
         THEN "TypeError"
    ELSE Undefined

\* C18: when the attempt on the last model of the code's chain (its only
\* model) fails with a transient error, the chain is exhausted: no further
\* attempt is made, a generation fails with an error that carries the one
\* observed and the session goes from LOADING to FAILED, while a judgment
\* or an evaluation yields its fixed fallback.
C18_ExhaustionFailsCreation ==
    [][ \A i \in 1..Len(inflight) : \A resp \in Responses(inflight[i].kind) :
          LET c == inflight[i] IN
          (TransientError(resp) /\ Requests(c) /\ SettlesWith(i, resp))
          => /\ inflight' = RemoveAt(inflight, i)
             /\ c.kind = "gen"
                => /\ generateMystery(resp, <<>>) = Raise(ObservedError(resp))
                   /\ phase = "LOADING" => phase' = "FAILED"
             /\ c.kind = "judge"
                => judgeInput(c.mystery, c.userInput, c.targetId, c.history,
                              resp) = Return(JudgeFallback)
             /\ c.kind = "eval"
                => evaluateSolution(c.mystery, c.playerTheory, resp)
                     = Return(EvalFallback) ]_vars

\* game creation has failed and a retry is offered
C18_Witness ==
    /\ phase = "FAILED" /\ ~isProcessing /\ InFlight("gen") = {}
    /\ ENABLED Retry

\* C19: a request is attempted once on each model of the code's chain (its
\* only model) and one attempt at a time: a step that issues a request puts
\* exactly one call in flight, on MODEL_NAME, and the step in which that
\* call settles, failed or not, takes it away and issues no other.
C19_OneAttemptAtATime ==
    [][ /\ Len(inflight') > Len(inflight)
           => /\ Len(inflight') = Len(inflight) + 1
              /\ SubSeq(inflight', 1, Len(inflight)) = inflight
              /\ inflight'[Len(inflight')].model = MODEL_NAME
        /\ \A i \in 1..Len(inflight) : \A resp \in Responses(inflight[i].kind) :
              SettlesWith(i, resp) => inflight' = RemoveAt(inflight, i) ]_vars

\* a turn whose provider call failed has ended and nothing is in flight
C19_Witness ==
    /\ phase = "PLAYING" /\ inflight = <<>> /\ turns >= 1
    /\ messages[Len(messages)].content = JudgeFallback.reply

\* the fields of a MysteryData (types.ts:35-43)
MysteryFields ==
    {"title", "situation", "solution", "difficulty", "npcs", "clues", "endings"}

\* C20: the generator never fails on malformed provider output: whatever
\* non-empty payload the provider returns, unparsable or lacking fields,
\* generate returns a MysteryData with every field present (placeholder
\* text, empty lists), and the session enters PLAYING.
C20_GeneratorSelfHeals ==
    [][ \A i \in InFlight("gen") : \A resp \in GenResponses :
          \A imgs \in [1..NpcCount(resp) -> ImageResponses] :
             LET r == generateMystery(resp, imgs) IN
             (/\ resp.kind = "text" /\ ~Falsy(resp.text)
              /\ GenerateSettled(i, resp, imgs))
             => /\ ~r.threw
                /\ MysteryFields \subseteq DOMAIN r.value
                /\ phase = "LOADING" => phase' = "PLAYING" ]_vars

-----------------------------------------------------------------------------
(* Game creation alone, with casts of three NPCs: the portraits *)

\* what the provider may send as an NPC's visualSummary (an optional field)
Summaries == {Undefined, "", "tall"}

PortraitNpc(k, vs) ==
    LET npc == [id |-> <<"p1", "p2", "p3">>[k], name |-> "N", role |-> "r",
                description |-> "d", personality |-> "p"]
    IN IF vs = Undefined THEN npc ELSE Spread(npc, "visualSummary", vs)

PortraitCast(f) ==
    [title |-> "P", situation |-> "s4", solution |-> "x4", difficulty |-> "easy",
     npcs |-> [k \in 1..3 |-> PortraitNpc(k, f[k])],
     clues |-> <<>>, endings |-> Endings]

PortraitResponses ==
    { Throw(QuotaMessage) } \cup
    { JsonText(PortraitCast(f)) : f \in [1..3 -> Summaries] }

PortraitSettle ==
    \E i \in InFlight("gen") : \E resp \in PortraitResponses :
        \E imgs \in [1..NpcCount(resp) -> ImageResponses] :
            GenerateSettled(i, resp, imgs)

PortraitNext ==
    \/ checkApiKey
    \/ handleSelectKey
    \/ AutoStart
    \/ PortraitSettle
    \/ Retry

PortraitSpec == Init /\ [][PortraitNext]_vars

\* NPC k of cast npcs asks for a portrait
AsksPortrait(npcs, k) == Truthy(Get(npcs[k], "visualSummary"))

\* C21: one portrait request is made per NPC with a non-empty
\* visualSummary and all are joined before the generator returns: the
\* mystery stored holds, for each such NPC, the result of its own request
\* (no avatar when that request failed), whatever became of the requests of
\* the others; the other NPCs and fields are as sent, and no portrait
\* failure makes generate fail.
C21_PortraitsIndependent ==
    [][ \A i \in InFlight("gen") : \A resp \in PortraitResponses :
          \A imgs \in [1..NpcCount(resp) -> ImageResponses] :
             (~Failed(resp) /\ GenerateSettled(i, resp, imgs))
             => LET raw == resp.text.json
                    r == generateMystery(resp, imgs)
                IN /\ ~r.threw
                   /\ mystery' = r.value
                   /\ phase' = "PLAYING"
                   /\ DOMAIN mystery'.npcs = DOMAIN raw.npcs
                   /\ \A k \in DOMAIN raw.npcs :
                        IF AsksPortrait(raw.npcs, k)
                        THEN mystery'.npcs[k]
                               = Spread(raw.npcs[k], "avatarUrl",
                                        IF imgs[k].kind = "images"
                                           /\ imgs[k].bytes = "b64"
                                        THEN "data:image/jpeg;base64,b64"
                                        ELSE Undefined)
                        ELSE mystery'.npcs[k] = raw.npcs[k]
                   /\ [mystery' EXCEPT !.npcs = raw.npcs] = raw ]_vars

\* a mystery is stored in which one NPC's portrait failed while another's
\* arrived
C21_Witness ==
    /\ phase = "PLAYING" /\ mystery # Null
    /\ \E j, k \in DOMAIN mystery.npcs :
          /\ AsksPortrait(mystery.npcs, j) /\ AsksPortrait(mystery.npcs, k)
          /\ Get(mystery.npcs[j], "avatarUrl") = Undefined
          /\ Truthy(Get(mystery.npcs[k], "avatarUrl"))

-----------------------------------------------------------------------------

\* the NPCs of m whose status is st
WithStatus(m, st) ==
    {k \in DOMAIN m.npcs : Get(m.npcs[k], "status") = st}

\* C22: in any mystery the generator returned, exactly one NPC has status
\* "deceased" and at least two have status "alive".
C22_OneDeceasedTwoAlive ==
    mystery # Null
    => /\ Cardinality(WithStatus(mystery, "deceased")) = 1
       /\ Cardinality(WithStatus(mystery, "alive")) >= 2

\* the closed set of the claim
ClosedAnswerTypes ==
    {"YES", "NO", "IRRELEVANT", "HINT", "CLARIFICATION", "NPC_DIALOGUE"}

\* C23: the answerType of every JudgeResponse that judge returns is in the
\* closed set; a provider value outside the set is returned as
\* CLARIFICATION.
C23_AnswerTypeClosed ==
    [][ \A i \in InFlight("judge") : \A resp \in JudgeResponses :
          JudgeSettled(i, resp)
          => LET c == inflight[i]
                 r == judgeInput(c.mystery, c.userInput, c.targetId,
                                 c.history, resp)
                 sent == IF Failed(resp) THEN Undefined
                         ELSE Get(resp.text.json, "answerType")
             IN /\ ~r.threw
                /\ Get(r.value, "answerType") \in ClosedAnswerTypes
                /\ (~Failed(resp) /\ sent \notin ClosedAnswerTypes)
                   => Get(r.value, "answerType") = "CLARIFICATION" ]_vars

\* C24: within one session the unlocked-clue set only grows: every step
\* other than "new game" leaves it a superset of what it was.
C24_UnlockedOnlyGrows ==
    [][ session' = session => unlockedClues \subseteq unlockedClues' ]_vars

\* two ids were unlocked, one after the other, in the same session
C24_Witness ==
    /\ Cardinality(unlockedClues) >= 2
    /\ phase = "PLAYING" /\ inflight = <<>>

IsPrefix(a, b) == Len(a) <= Len(b) /\ SubSeq(b, 1, Len(a)) = a

\* a step in which a generation settles with success
GenerationSucceeds ==
    \E i \in InFlight("gen") : \E resp \in GenResponses :
        \E imgs \in [1..NpcCount(resp) -> ImageResponses] :
            ~generateMystery(resp, imgs).threw /\ GenerateSettled(i, resp, imgs)

\* C25: the message log is append-only within a session: every step other
\* than "new game" and the writing of the initial message on generator
\* success leaves the previous log as a prefix of the new one.
C25_LogAppendOnly ==
    [][ (session' = session /\ ~GenerationSucceeds)
        => IsPrefix(messages, messages') ]_vars

\* the log has grown over two turns, one of them with a clue alert
C25_Witness ==
    /\ Len(messages) >= 6
    /\ messages[1].id = "init-situation"
    /\ \E k \in 2..Len(messages) : messages[k].type = "clue_alert"

\* C26: "request solve" is possible only in PLAYING and moves the phase to
\* SOLVING; "cancel" is possible only in SOLVING and moves the phase back
\* to PLAYING; SOLVING is entered in no other way, and left for PLAYING in
\* no other way.
C26_SolveAndCancel ==
    [][ /\ (ENABLED RequestSolve) => phase = "PLAYING"
        /\ (ENABLED CancelSolve) => phase = "SOLVING"
        /\ RequestSolve => (phase = "PLAYING" /\ phase' = "SOLVING")
        /\ CancelSolve => (phase = "SOLVING" /\ phase' = "PLAYING")
        /\ (phase # "SOLVING" /\ phase' = "SOLVING") => RequestSolve
        /\ (phase = "SOLVING" /\ phase' = "PLAYING") => CancelSolve ]_vars

\* the player is back in PLAYING after typing a theory in SOLVING
C26_Witness == phase = "PLAYING" /\ finalTheory # <<>>

\* C27: a failed game creation offers a retry path: whenever the phase is
\* FAILED the view offers the player a control that acts, so that FAILED is
\* never a dead end.  (The claim asks for more, a control that leads back to
\* LOADING and a new generation attempt; the first App offers none at all.)
C27_RetryPath == phase = "FAILED" => ENABLED <<FirstAppControls>>_vars

\* C28: a failed interrogation turn never blocks further play: when the
\* judge call of a turn fails while the session is in PLAYING, the phase is
\* still PLAYING afterwards, the fallback reply has been appended as the
\* turn's ai_response, the processing flag is cleared and a further player
\* input is accepted.
C28_FailedTurnDoesNotBlock ==
    [][ \A i \in InFlight("judge") : \A resp \in JudgeResponses :
          (phase = "PLAYING" /\ Failed(resp) /\ JudgeSettled(i, resp))
          => /\ phase' = "PLAYING"
             /\ messages' = Append(messages, AiMessage(JudgeFallback, inflight[i]))
             /\ messages'[Len(messages')].type = "ai_response"
             /\ isProcessing' = FALSE
             /\ InputAccepted'
             /\ SubmitPasses(<<"q">>)' ]_vars

\* after a turn that failed, a second input was accepted
C28_Witness ==
    /\ phase = "PLAYING" /\ turns = 2
    /\ Len(messages) >= 3
    /\ messages[3].type = "ai_response"
    /\ messages[3].content = JudgeFallback.reply
    /\ \E k \in 4..Len(messages) : messages[k].type = "user"

-----------------------------------------------------------------------------
(* Turns of a game under way: the session starts in PLAYING with the log   *)
(* of some turns already played, so that logs of more than five messages   *)
(* are submitted from.                                                     *)

MaxPastTurns == 3   \* turns already in the log at the start

\* the mystery of the game under way
StoredMystery == generateMystery(JsonText(RawMysteryB), <<>>).value

\* the judgments of the turns already played (none unlocked a clue)
PastJudgments ==
    { [answerType |-> "NPC_DIALOGUE", reply |-> "r2"], JudgeFallback }

\* the two messages of a turn played with the GM
PastTurn(judgment) ==
    << UserMessage(<<"q">>, TargetName(StoredMystery, "GM")),
       AiMessage(judgment,
                 [targetName |-> TargetName(StoredMystery, "GM"),
                  avatarUrl |-> TargetAvatar(StoredMystery, "GM")]) >>

RECURSIVE PastLogs(_)
PastLogs(n) ==
    IF n = 0 THEN { << InitMessage(StoredMystery) >> }
    ELSE { log \o PastTurn(j) : log \in PastLogs(n - 1), j \in PastJudgments }

TurnInit ==
    /\ hasApiKey = TRUE
    /\ phase = "PLAYING"
    /\ mystery = StoredMystery
    /\ messages \in UNION { PastLogs(n) : n \in 0..MaxPastTurns }
    /\ isProcessing = FALSE
    /\ activeTarget = "GM"
    /\ unlockedClues = {}
    /\ finalTheory = <<>>
    /\ endingResult = Null
    /\ inflight = <<>>
    /\ session = 1
    /\ turns = 0

TurnNext ==
    \/ SubmitInput
    \/ JudgeSettle

TurnSpec == TurnInit /\ [][TurnNext]_vars

Min(a, b) == IF a <= b THEN a ELSE b

\* C29: the history passed to the judge for an utterance is the contents
\* of the last five messages of the log at the moment of submission (all of
\* them when there are fewer than five), in log order, the utterance itself
\* not among them.
C29_HistoryIsLastFive ==
    [][ \A input \in Utterances :
          (SubmitPasses(input) /\ InputAccepted /\ handleSubmit(input))
          => LET call == inflight'[Len(inflight')]
                 n == Min(5, Len(messages))
             IN /\ call.kind = "judge"
                /\ call.userInput = input
                /\ Len(call.history) = n
                /\ \A k \in 1..n :
                      call.history[k] = messages[Len(messages) - n + k].content ]_vars

\* a judge call was made from a log of more than five messages
C29_Witness ==
    \E i \in InFlight("judge") :
        /\ Len(inflight[i].history) = 5
        /\ Len(messages) >= 7

\* the operations of a session under way: input, judgment (clue unlock),
\* target change, solve request, cancel, theory, evaluation
SessionStep ==
    \/ SubmitInput
    \/ JudgeSettle
    \/ SelectTarget
    \/ RequestSolve
    \/ CancelSolve
    \/ TypeTheory
    \/ SubmitSolve
    \/ EvalSettle

\* C30: once a mystery is stored, no player input, clue unlock, target
\* change, solve request, cancel or evaluation modifies it: the mystery is
\* the same after the step and every clue of it still has isLocked = true.
C30_MysteryReadOnly ==
    [][ (mystery # Null /\ SessionStep)
        => (mystery' = mystery /\ AllLocked(mystery')) ]_vars

\* a game was played to its ending with a clue unlocked, and the stored
\* clues are all still locked
C30_Witness ==
    /\ phase = "ENDED" /\ endingResult # Null
    /\ mystery # Null /\ unlockedClues # {}
    /\ \E k \in 1..Len(mystery.clues) :
          Get(mystery.clues[k], "id") \in unlockedClues
    /\ AllLocked(mystery)

-----------------------------------------------------------------------------
(* Games after a first one: the run starts on the ending screen of a game  *)
(* whose player cancelled a solve attempt, went on, and solved again; the  *)
(* second evaluation has settled and the cancelled one is still in flight. *)

\* the ending the second evaluation gave
StoredEnding ==
    evaluateSolution(StoredMystery, <<"t">>,
        JsonText([type |-> "GOOD", title |-> "solved", narrative |-> "n1"])).value

ReplayInit ==
    /\ hasApiKey = TRUE
    /\ phase = "ENDED"
    /\ mystery = StoredMystery
    /\ messages \in PastLogs(1)
    /\ isProcessing = FALSE
    /\ activeTarget = "GM"
    /\ unlockedClues = {}
    /\ finalTheory = <<"t">>
    /\ endingResult = StoredEnding
    /\ inflight = << [kind |-> "eval", session |-> 0, model |-> MODEL_NAME,
                      mystery |-> StoredMystery,
                      playerTheory |-> <<"t">>, cancelled |-> TRUE] >>
    /\ session = 0
    /\ turns = 0

ReplayNext ==
    \/ handleSelectKey
    \/ AutoStart
    \/ NewGameButton
    \/ GenerateSettle
    \/ Retry
    \/ SelectTarget
    \/ EvalSettle

ReplaySpec == ReplayInit /\ [][ReplayNext]_vars

\* C31: in every reachable state the active target is "GM" or the id of an
\* NPC of the mystery currently stored.
C31_TargetOfStoredMystery == activeTarget \in Targets

\* C32: whenever a generation, judgment or evaluation call is in flight,
\* the processing flag is set.
C32_ProcessingWhileInFlight == inflight # <<>> => isProcessing = TRUE

\* C33: whenever no generation, judgment or evaluation call is in flight,
\* the processing flag is clear.
C33_ProcessingNeverStuck == inflight = <<>> => isProcessing = FALSE

\* the calls of a second game have settled both ways: its generation
\* succeeded, a turn failed and another did not, its evaluation fell back,
\* and nothing is in flight
C33_Witness ==
    /\ inflight = <<>> /\ phase = "ENDED"
    /\ session = 2 /\ mystery # Null
    /\ endingResult = EvalFallback
    /\ \E k \in 1..Len(messages) :
          /\ messages[k].type = "ai_response"
          /\ messages[k].content = JudgeFallback.reply
    /\ \E k \in 1..Len(messages) :
          /\ messages[k].type = "ai_response"
          /\ messages[k].content = "r1"

\* C34: in PLAYING, SOLVING and ENDED a mystery is stored; the mystery is
\* null only in IDLE, LOADING or FAILED.
C34_MysteryStoredWhilePlayed ==
    /\ phase \in {"PLAYING", "SOLVING", "ENDED"} => mystery # Null
    /\ mystery = Null => phase \in {"IDLE", "LOADING", "FAILED"}

\* C35: whenever the phase is ENDED an ending evaluation is stored, and the
\* evaluation that ends a game was computed for the mystery then stored.
C35_EndedHasEnding ==
    [][ phase' = "ENDED" =>
          /\ endingResult' # Null
          /\ \A i \in InFlight("eval") : \A resp \in EvalResponses :
                EvalSettled(i, resp) => inflight[i].mystery = mystery' ]_vars

\* the messages a step appended to the log
Appended == SubSeq(messages', Len(messages) + 1, Len(messages'))

\* C36: an accepted input appends exactly one user message at submission;
\* when its judge call settles, the step appends exactly one ai_response,
\* after the user message of the turn, preceded by the turn's clue_alert if
\* there is one.
C36_TurnComplete ==
    [][ /\ \A input \in Utterances :
              (SubmitPasses(input) /\ InputAccepted /\ handleSubmit(input))
              => /\ IsPrefix(messages, messages')
                 /\ Len(Appended) = 1
                 /\ Appended[1].type = "user"
                 /\ Appended[1].content = input
        /\ \A i \in InFlight("judge") : \A resp \in JudgeResponses :
              JudgeSettled(i, resp)
              => /\ IsPrefix(messages, messages')
                 /\ Len(Appended) \in {1, 2}
                 /\ Appended[Len(Appended)].type = "ai_response"
                 /\ Len(Appended) = 2 => Appended[1].type = "clue_alert"
                 /\ \E k \in 1..Len(messages) :
                       /\ messages[k].type = "user"
                       /\ messages[k].content = inflight[i].userInput ]_vars

\* C37: a turn is bound to the target active at submission: the judge is
\* called with that target id, and the turn's ai_response carries the
\* speaker name and the avatar of that target, whatever target is selected
\* when the judge call settles.
C37_TurnBoundToTarget ==
    [][ /\ \A input \in Utterances :
              (SubmitPasses(input) /\ InputAccepted /\ handleSubmit(input))
              => inflight'[Len(inflight')].targetId = activeTarget
        /\ \A i \in InFlight("judge") : \A resp \in JudgeResponses :
              (JudgeSettled(i, resp) /\ Len(messages') > Len(messages))
              => LET c == inflight[i]
                     reply == messages'[Len(messages')]
                 IN /\ reply.type = "ai_response"
                    /\ reply.speakerName = TargetName(c.mystery, c.targetId)
                    /\ reply.avatarUrl = TargetAvatar(c.mystery, c.targetId) ]_vars

\* a turn put to an NPC was answered under the NPC's name after the player
\* had moved on to the GM: the GM turn, submitted before that answer came,
\* is still in flight
C37_Witness ==
    /\ activeTarget = "GM" /\ mystery # Null
    /\ \E i \in InFlight("judge") :
          /\ inflight[i].targetId = "GM"
          /\ Len(inflight[i].history) = 2
    /\ Len(messages) >= 4
    /\ messages[Len(messages)].type = "ai_response"
    /\ messages[Len(messages)].speakerName \in {"Ann", "Cyd"}

\* C38: submitting a solve attempt with an empty or blank theory, or with
\* no mystery stored, starts no evaluation call and changes neither the
\* phase, the processing flag nor the ending result.
C38_BlankSolveIsNoOp ==
    [][ ((mystery = Null \/ Trim(finalTheory) = <<>>) /\ SubmitSolve)
        => UNCHANGED <<inflight, phase, isProcessing, endingResult>> ]_vars

\* a blank theory can be submitted: the player is solving, has typed only
\* white space, and no call is processing
C38_Witness ==
    /\ phase = "SOLVING" /\ mystery # Null
    /\ finalTheory = <<" ">>
    /\ ENABLED SubmitSolve

\* C39: requesting the solve and cancelling change only the phase, selecting
\* a target only the active target: each leaves the log, the unlocked-clue
\* set, the mystery and the theory text as they were, so that the theory
\* typed before a cancel is there when SOLVING is entered again.
C39_PhaseAndTargetOnly ==
    [][ /\ (RequestSolve \/ CancelSolve)
            => UNCHANGED <<messages, unlockedClues, mystery, finalTheory,
                           activeTarget, endingResult, isProcessing>>
        /\ SelectTarget
            => UNCHANGED <<messages, unlockedClues, mystery, finalTheory,
                           phase, endingResult, isProcessing>> ]_vars

\* SOLVING was entered again after a cancel (the evaluation of the attempt
\* cancelled is still in flight) and the theory typed before is there
C39_Witness ==
    /\ phase = "SOLVING"
    /\ finalTheory = <<"t">>
    /\ \E i \in InFlight("eval") :
          inflight[i].cancelled /\ inflight[i].playerTheory = <<"t">>

====
